---- MODULE Spec2Model ----
(***************************************************************************)
(* Model of lib/matrix.mjs: the Matrix class, a row-major matrix of        *)
(* Float32 values with structural transforms and cofactor-based algebra.   *)
(*                                                                         *)
(* A matrix is a record [ySize, xSize, values]; values is the content of   *)
(* its Float32Array, 1-based here (flat index i of the code is i + 1).     *)
(* Numbers are integers: up to 2^24 single precision represents every      *)
(* integer exactly, so IEEE arithmetic on them is integer arithmetic;      *)
(* fround rounds what lies beyond, as storing into the Float32Array does.  *)
(* NaN and undefined are two values outside the numbers.  -0 is folded     *)
(* into 0: no operation of the class tells them apart (=== and !== do not, *)
(* and no element is ever a divisor).                                      *)
(***************************************************************************)
EXTENDS Integers, Sequences, FiniteSets, TLC

VARIABLES
    heap,    \* Spec: the matrices constructed so far, in construction order
    built,   \* Spec: for each of them, its fields as the constructor left them
    last,    \* Spec: the most recent call and the kind of thing it returned
    ctor,    \* SpecCall, SpecAlgebra: the arguments given to the constructor
    recv,    \* SpecCall, SpecAlgebra: the matrix under test (the receiver)
    call,    \* SpecCall, SpecAlgebra: the method called on recv, with arguments
    ret      \* SpecCall, SpecAlgebra: what that call returned or threw

vars == <<heap, built, last, ctor, recv, call, ret>>

------------------------------------------------------------------------------
(* Bounds of the model *)

\* Spec: the callers build this many matrices
MaxObjs == 2
\* Spec, SpecCall: most elements of a matrix given to a builder (ySize * xSize <= MaxLen)
MaxLen == 4
\* SpecCall: elements given to the constructor are 0..MaxVal, or one of Specials
MaxVal == 1
\* SpecAlgebra: largest square matrix; it differs from the identity in at most
\* MaxEdits elements, and those are -MaxElem..MaxElem
MaxN == 4
MaxEdits == 2
MaxElem == 1

------------------------------------------------------------------------------
(* JavaScript numbers *)

NaN == 0 - 2000000001
undefined == 0 - 2000000002

ToNumber(v) == IF v = undefined THEN NaN ELSE v

FMul(a, b) ==
    IF ToNumber(a) = NaN \/ ToNumber(b) = NaN THEN NaN ELSE a * b

FAdd(a, b) ==
    IF ToNumber(a) = NaN \/ ToNumber(b) = NaN THEN NaN ELSE a + b

FSub(a, b) ==
    IF ToNumber(a) = NaN \/ ToNumber(b) = NaN THEN NaN ELSE a - b

\* a !== b
StrictNeq(a, b) == a = NaN \/ b = NaN \/ a # b

\* Math.pow(-1, k) for an index k >= 0
PowNeg1(k) == IF k % 2 = 0 THEN 1 ELSE -1

Abs(v) == IF v < 0 THEN -v ELSE v

\* 2^24: up to here every integer is a single-precision value
F32Exact == 16777216

RECURSIVE UlpOf(_, _)
UlpOf(a, u) == IF a \div u < F32Exact THEN u ELSE UlpOf(a, 2 * u)

\* Storing a value in a Float32Array: round to nearest, ties to even
fround(v) ==
    IF ToNumber(v) = NaN THEN NaN
    ELSE IF Abs(v) <= F32Exact THEN v
    ELSE LET a == Abs(v)
             u == UlpOf(a, 2)
             q == a \div u
             r == a % u
             n == IF 2 * r < u THEN q * u
                  ELSE IF 2 * r > u THEN (q + 1) * u
                  ELSE IF q % 2 = 0 THEN q * u ELSE (q + 1) * u
         IN IF v < 0 THEN -n ELSE n

\* Float32Array.from(values)
Float32ArrayFrom(values) == [i \in 1..Len(values) |-> fround(values[i])]

------------------------------------------------------------------------------
(* What a call returns or throws *)

Outcome(k, e, y, x, v, n, b, l) ==
    [kind |-> k, error |-> e, ySize |-> y, xSize |-> x, values |-> v,
     num |-> n, bool |-> b, items |-> l]

Mat(y, x, v) == Outcome("matrix", "", y, x, v, 0, FALSE, <<>>)
Throw(e) == Outcome("error", e, 0, 0, <<>>, 0, FALSE, <<>>)
Num(n) == Outcome("number", "", 0, 0, <<>>, n, FALSE, <<>>)
Bool(b) == Outcome("boolean", "", 0, 0, <<>>, 0, b, <<>>)
List(l) == Outcome("list", "", 0, 0, <<>>, 0, FALSE, l)
None == Outcome("none", "", 0, 0, <<>>, 0, FALSE, <<>>)

\* body(x) for x the value given: the value is computed once, however often body uses it
With(x, body(_)) == body(x)

IsMat(o) == o.kind = "matrix"
IsErr(o) == o.kind = "error"

\* The first outcome of a sequence of outcomes that is a throw, else None
RECURSIVE FirstThrowFrom(_, _)
FirstThrowFrom(s, i) ==
    IF i > Len(s) THEN None
    ELSE IF IsErr(s[i]) THEN s[i] ELSE FirstThrowFrom(s, i + 1)

FirstThrow(s) == FirstThrowFrom(s, 1)

------------------------------------------------------------------------------
(* Construction *)

New_noUpperCheck(ySize, xSize, values) ==
    With(Float32ArrayFrom(values), LAMBDA vals :
        IF Len(vals) < ySize * xSize THEN Throw("NotEnoughValues")
        ELSE Mat(ySize, xSize, vals))

\* new Matrix(ySize, xSize, values)
New(ySize, xSize, values) ==
    With(Float32ArrayFrom(values), LAMBDA vals :
        IF Len(vals) < ySize * xSize THEN Throw("NotEnoughValues")
        ELSE IF Len(vals) > ySize * xSize THEN Throw("TooManyValues")
        ELSE Mat(ySize, xSize, vals))

\* Matrix.matrix(y, x)(...args)
matrix(y, x, args) == New(y, x, args)

\* new Array(n).fill(v); a negative length is a RangeError, handled by callers
Filled(n, v) == [i \in 1..n |-> v]

\* Matrix.identity(size)
identity(size) ==
    \* zeros, then values[i * size + i] = 1 for i < size
    New(size, size,
        [k \in 1..(size * size) |->
            IF \E i \in 0..(size - 1) : i * size + i = k - 1
            THEN 1 ELSE Filled(size * size, 0)[k]])

\* Matrix.scalar(ySize, xSize, value)
scalar(ySize, xSize, value) ==
    IF ySize * xSize < 0 THEN Throw("RangeError")
    ELSE New(ySize, xSize, Filled(ySize * xSize, value))

\* Matrix.vector(values)
vector(values) == New(Len(values), 1, values)

------------------------------------------------------------------------------
(* Typed-array primitives *)

\* values[i] for a flat index i: undefined outside the array
At(values, i) ==
    IF i >= 0 /\ i < Len(values) THEN values[i + 1] ELSE undefined

Min(a, b) == IF a < b THEN a ELSE b
Max(a, b) == IF a > b THEN a ELSE b

\* A relative index of slice: negative counts from the end, then clamped
RelIndex(k, len) == IF k < 0 THEN Max(len + k, 0) ELSE Min(k, len)

Window(values, start, end, isView) ==
    LET from == RelIndex(start, Len(values))
        to == RelIndex(end, Len(values))
        count == Max(to - from, 0)
    IN [view |-> isView, offset |-> from,
        data |-> SubSeq(values, from + 1, from + count)]

\* values.subarray(start, end): a window onto the same buffer
subarray(values, start, end) == Window(values, start, end, TRUE)

\* values.slice(start, end): a copy in a buffer of its own
slice(values, start, end) == Window(values, start, end, FALSE)

ReverseSeq(s) == [i \in 1..Len(s) |-> s[Len(s) + 1 - i]]

\* array.reverse(): in place. Gives the array reversed and the buffer `owner`
\* as it is afterwards: written through when the array is a view of it.
reverse(array, owner) ==
    With(ReverseSeq(array.data), LAMBDA rev :
        [array |-> [array EXCEPT !.data = rev],
         owner |-> IF array.view
                   THEN [i \in 1..Len(owner) |->
                           IF i > array.offset /\ i <= array.offset + Len(rev)
                           THEN rev[i - array.offset] ELSE owner[i]]
                   ELSE owner])

\* The (y, x) pairs of "for y < ySize: for x < xSize", in loop order
Cells(ySize, xSize) ==
    IF ySize > 0 /\ xSize > 0
    THEN [k \in 1..(ySize * xSize) |-> <<(k - 1) \div xSize, (k - 1) % xSize>>]
    ELSE <<>>

\* The callbacks given to map: x => x * k, x => x / k, x => x + k
Sign(v) == IF v < 0 THEN -1 ELSE 1

Divides(k, v) == ToNumber(v) = NaN \/ (k # 0 /\ Abs(v) % Abs(k) = 0)

FDiv(a, b) ==
    IF ToNumber(a) = NaN \/ ToNumber(b) = NaN THEN NaN
    ELSE Sign(a) * Sign(b) * (Abs(a) \div Abs(b))

Apply(fn, v) ==
    CASE fn.op = "mul" -> FMul(v, fn.k)
      [] fn.op = "div" -> FDiv(v, fn.k)
      [] fn.op = "add" -> FAdd(v, fn.k)

------------------------------------------------------------------------------
(* Methods.  m is the receiver (this). *)

\* m.get(y, x)
get(m, y, x) == At(m.values, y * m.xSize + x)

\* m.eq(b)
eq(m, b) ==
    IF m.xSize # b.xSize \/ m.ySize # b.ySize THEN FALSE
    ELSE \A i \in 0..(Len(m.values) - 1) :
            ~StrictNeq(At(m.values, i), At(b.values, i))

RECURSIVE transposeFill(_, _, _, _)
transposeFill(m, cells, k, result) ==
    IF k > Len(cells) THEN result
    ELSE LET y == cells[k][1]
             x == cells[k][2]
         IN transposeFill(m, cells, k + 1,
                [result EXCEPT ![y + x * m.ySize + 1] =
                                   At(m.values, y * m.xSize + x)])

transpose_rowMajorTarget(m) ==
    New(m.xSize, m.ySize, [k \in 1..(m.xSize * m.ySize) |-> At(m.values, k - 1)])

\* m.transpose()
transpose(m) ==
    IF m.xSize * m.ySize < 0 THEN Throw("RangeError")
    ELSE New(m.xSize, m.ySize,
             transposeFill(m, Cells(m.ySize, m.xSize), 1,
                           Filled(m.xSize * m.ySize, undefined)))

\* m.rotate(): for x ascending, for y descending, push values[y * xSize + x]
rotate(m) ==
    New(m.xSize, m.ySize,
        [k \in 1..(IF m.ySize > 0 /\ m.xSize > 0 THEN m.xSize * m.ySize ELSE 0) |->
            LET x == (k - 1) \div m.ySize
                y == m.ySize - 1 - ((k - 1) % m.ySize)
            IN At(m.values, y * m.xSize + x)])

\* m.minor(y, x)
minor(m, y, x) ==
    LET sourceix(c) == c[1] * m.xSize + c[2]
        keep(c) == (sourceix(c) % m.xSize) # x /\ (sourceix(c) \div m.xSize) # y
    IN With(SelectSeq(Cells(m.ySize, m.xSize), keep), LAMBDA kept :
           New(m.ySize - 1, m.xSize - 1,
               [i \in 1..Len(kept) |-> At(m.values, sourceix(kept[i]))]))

\* m.minors()
minors(m) ==
    With(Cells(m.ySize, m.xSize), LAMBDA cells :
    With([k \in 1..Len(cells) |-> minor(m, cells[k][1], cells[k][2])], LAMBDA result :
        IF IsErr(FirstThrow(result)) THEN FirstThrow(result) ELSE List(result)))

RECURSIVE determinant(_)
RECURSIVE determinantSum(_, _, _)
RECURSIVE determinant_noSquareCheck(_)
RECURSIVE determinantSum_noSquareCheck(_, _, _)

determinantSum_noSquareCheck(m, x, sum) ==
    IF x >= m.xSize THEN Num(sum)
    ELSE With(minor(m, 0, x), LAMBDA mn :
            IF IsErr(mn) THEN mn
            ELSE With(determinant_noSquareCheck(mn), LAMBDA d :
                IF IsErr(d) THEN d
                ELSE determinantSum_noSquareCheck(m, x + 1,
                        FAdd(sum, FMul(FMul(At(m.values, x), d.num), PowNeg1(x))))))

determinant_noSquareCheck(m) ==
    IF m.xSize = 2 /\ m.ySize = 2
    THEN Num(FSub(FMul(get(m, 0, 0), get(m, 1, 1)),
                  FMul(get(m, 0, 1), get(m, 1, 0))))
    ELSE determinantSum_noSquareCheck(m, 0, 0)

\* The loop of determinant(): sum += values[x] * minor(0, x).determinant() * (-1)^x
determinantSum(m, x, sum) ==
    IF x >= m.xSize THEN Num(sum)
    ELSE With(minor(m, 0, x), LAMBDA mn :
            IF IsErr(mn) THEN mn
            ELSE With(determinant(mn), LAMBDA d :
                IF IsErr(d) THEN d
                ELSE determinantSum(m, x + 1,
                        FAdd(sum, FMul(FMul(At(m.values, x), d.num), PowNeg1(x))))))

\* m.determinant()
determinant(m) ==
    IF m.xSize # m.ySize THEN Throw("NotSquare")
    ELSE IF m.xSize = 2 /\ m.ySize = 2
    THEN Num(FSub(FMul(get(m, 0, 0), get(m, 1, 1)),
                  FMul(get(m, 0, 1), get(m, 1, 0))))
    ELSE determinantSum(m, 0, 0)

\* m.map(fn)
map(m, fn) ==
    New(m.ySize, m.xSize,
        Float32ArrayFrom([i \in 1..Len(m.values) |-> Apply(fn, m.values[i])]))

RECURSIVE reduceFrom(_, _, _, _)
reduceFrom(values, fn, i, acc) ==
    IF i > Len(values) THEN acc
    ELSE reduceFrom(values, fn, i + 1, Apply([op |-> fn, k |-> values[i]], acc))

\* m.reduce(fn, initial), fn being (acc, x) => acc + x
reduce(m, fn, initial) == Num(reduceFrom(m.values, fn, 1, initial))

\* m.adjugate()
adjugate(m) ==
    With(transpose(m), LAMBDA t :
        IF IsErr(t) THEN t
        ELSE With(minors(t), LAMBDA ms :
            IF IsErr(ms) THEN ms
            ELSE With([ix \in 1..Len(ms.items) |-> determinant(ms.items[ix])],
                      LAMBDA dets :
                IF IsErr(FirstThrow(dets)) THEN FirstThrow(dets)
                ELSE New(m.ySize, m.xSize,
                         [ix \in 1..Len(dets) |->
                             FMul(dets[ix].num, PowNeg1(ix - 1))]))))

\* m.inverse()
inverse(m) ==
    With(determinant(m), LAMBDA d :
        IF IsErr(d) THEN d
        ELSE IF d.num = 0 THEN Throw("NoInverse")
        ELSE With(adjugate(m), LAMBDA adj :
            IF IsErr(adj) THEN adj
            ELSE map(adj, [op |-> "div", k |-> d.num])))

\* Whether every quotient inverse() forms is an integer (the numbers of the model)
InverseExact(m) ==
    With(determinant(m), LAMBDA d :
        IsErr(d) \/ d.num = 0 \/ d.num = NaN
        \/ With(adjugate(m), LAMBDA adj :
               IsErr(adj)
               \/ \A i \in 1..Len(adj.values) : Divides(d.num, adj.values[i])))

RECURSIVE mirrorRows(_, _, _, _)
mirrorRows(m, y, own, result) ==
    IF y >= m.ySize THEN [self |-> own, result |-> result]
    ELSE With(reverse(slice(own, y * m.xSize, y * m.xSize + m.xSize), own),
              LAMBDA r : mirrorRows(m, y + 1, r.owner, result \o r.array.data))

\* m.mirror(): self is this.values once the call is over, ret what it returns
mirrorRun(m) ==
    With(mirrorRows(m, 0, m.values, <<>>), LAMBDA rows :
        [self |-> rows.self, ret |-> New(m.ySize, m.xSize, rows.result)])

mirror(m) == mirrorRun(m).ret

\* The inner loop with = in place of +=: only the last product is kept
dot_assign(m, mult, y, x, z, acc) ==
    FMul(get(m, y, m.xSize - 1), get(mult, m.xSize - 1, x))

\* The inner loop of multiply: the sum over z of m[y, z] * mult[z, x]
RECURSIVE dot(_, _, _, _, _, _)
dot(m, mult, y, x, z, acc) ==
    IF z >= m.xSize THEN acc
    ELSE dot(m, mult, y, x, z + 1,
             FAdd(acc, FMul(get(m, y, z), get(mult, z, x))))

\* m.multiply(multiplier): multiplier is a number or a matrix
multiply(m, multiplier) ==
    With(IF multiplier.kind = "number"
         THEN map(identity(m.xSize), [op |-> "mul", k |-> multiplier.num])
         ELSE multiplier, LAMBDA mult :
    With(Cells(m.ySize, mult.xSize), LAMBDA cells :
        IF m.ySize * mult.xSize < 0 THEN Throw("RangeError")
        ELSE New(m.ySize, mult.xSize,
                 [k \in 1..(m.ySize * mult.xSize) |->
                     IF k <= Len(cells)
                     THEN dot(m, mult, cells[k][1], cells[k][2], 0, 0)
                     ELSE 0])))

\* m.col(x)
col(m, x) ==
    New(m.ySize, 1,
        [k \in 1..Max(m.ySize, 0) |-> At(m.values, x + (k - 1) * m.xSize)])

\* m.row(y)
row(m, y) ==
    New(1, m.xSize, slice(m.values, y * m.xSize, y * m.xSize + m.xSize).data)

------------------------------------------------------------------------------
(* Expressions of test/matrix-test.mjs that chain several calls *)

\* m.transpose().transpose().eq(m)
transposeTwiceEq(m) ==
    With(transpose(m), LAMBDA t :
        IF IsErr(t) THEN t
        ELSE With(transpose(t), LAMBDA tt :
            IF IsErr(tt) THEN tt ELSE Bool(eq(tt, m))))

\* m.inverse().multiply(m).eq(Matrix.identity(m.ySize))
inverseRoundTrip(m) ==
    With(inverse(m), LAMBDA inv :
        IF IsErr(inv) THEN inv
        ELSE With(multiply(inv, m), LAMBDA prod :
            IF IsErr(prod) THEN prod
            ELSE With(identity(m.ySize), LAMBDA id :
                IF IsErr(id) THEN id ELSE Bool(eq(prod, id)))))

------------------------------------------------------------------------------
(* Inputs *)

\* <<start, start + 1, ...>>, n values
Ramp(start, n) == [i \in 1..n |-> start + i - 1]

\* Every sequence of n values from 0..top
Tuples(n, top) == [1..n -> 0..top]

\* Numbers a caller can pass that are not small integers: the first integer that
\* is not a single-precision value, and NaN
Specials == {F32Exact + 1, NaN}

\* The values given to a builder: 0..MaxVal, with at most one of Specials among them
Supplied(n) ==
    Tuples(n, MaxVal)
    \cup { [i \in 1..n |-> IF i = at THEN s ELSE t[i]] :
             t \in Tuples(n, MaxVal), at \in 1..n, s \in Specials }

\* Whether the products and sums of the elements of m stay below 2^31
Small(m) ==
    \A i \in 1..Len(m.values) :
        ToNumber(m.values[i]) = NaN \/ Abs(m.values[i]) < F32Exact

\* The callbacks given to map, the numbers given to multiply
MapFns == {[op |-> "mul", k |-> -1], [op |-> "add", k |-> 1]}
Scalars == {-1, 2}

NoCall == [op |-> "none", y |-> 0, x |-> 0, arg |-> None]
Called(op, y, x, arg) == [op |-> op, y |-> y, x |-> x, arg |-> arg]
NoArgs == [ySize |-> 0, xSize |-> 0, values |-> <<>>]

------------------------------------------------------------------------------
(* SpecCall: one matrix is constructed, then one method is called on it *)

NoneYet == [op |-> "none", kind |-> "none"]

HeapIdle == heap = <<>> /\ built = <<>> /\ last = NoneYet

InitCall ==
    /\ HeapIdle
    /\ ctor = NoArgs
    /\ recv = None
    /\ call = NoCall
    /\ ret = None

Constructed(op, y, x, values, r) ==
    /\ ctor' = [ySize |-> y, xSize |-> x, values |-> values]
    /\ ret' = r
    /\ recv' = IF IsMat(r) THEN r ELSE None
    /\ call' = Called(op, y, x, None)
    /\ UNCHANGED <<heap, built, last>>

\* new Matrix(y, x, values)
Construct ==
    /\ call.op = "none"
    /\ \E y \in 1..MaxLen, x \in 1..MaxLen, n \in 0..(MaxLen + 1) :
         \E values \in Supplied(n) :
            Constructed("new", y, x, values, New(y, x, values))

\* Matrix.matrix(y, x)(...values)
BuildMatrix ==
    /\ call.op = "none"
    /\ \E y \in 1..MaxLen, x \in 1..MaxLen, n \in 0..(MaxLen + 1) :
         \E values \in Supplied(n) :
            Constructed("matrix", y, x, values, matrix(y, x, values))

Ready == call.op \in {"new", "matrix"} /\ IsMat(recv)

Returned(op, y, x, arg, r) ==
    /\ call' = Called(op, y, x, arg)
    /\ ret' = r
    /\ UNCHANGED <<heap, built, last, ctor, recv>>

CallGet ==
    /\ Ready
    /\ \E y \in 0..(recv.ySize - 1), x \in 0..(recv.xSize - 1) :
         Returned("get", y, x, None, Num(get(recv, y, x)))

CallTranspose == Ready /\ Returned("transpose", 0, 0, None, transpose(recv))

CallTransposeTwiceEq ==
    Ready /\ Returned("transposeTwiceEq", 0, 0, None, transposeTwiceEq(recv))

\* The operand is any matrix of at most MaxLen elements that count up from 0..MaxVal
CallMultiply ==
    /\ Ready
    /\ \E y \in 1..MaxLen :
         \E x \in 1..(MaxLen \div y) :
            \E start \in 0..MaxVal :
                Returned("multiply", 0, 0, New(y, x, Ramp(start, y * x)),
                         multiply(recv, New(y, x, Ramp(start, y * x))))

CallMultiplyNumber ==
    /\ Ready
    /\ \E k \in Scalars :
         Returned("multiply", 0, 0, Num(k), multiply(recv, Num(k)))

CallDeterminant ==
    Ready /\ Small(recv) /\ Returned("determinant", 0, 0, None, determinant(recv))

CallAdjugate ==
    Ready /\ Small(recv) /\ Returned("adjugate", 0, 0, None, adjugate(recv))

CallInverse ==
    /\ Ready
    /\ Small(recv)
    /\ InverseExact(recv)
    /\ Returned("inverse", 0, 0, None, inverse(recv))

CallInverseRoundTrip ==
    /\ Ready
    /\ Small(recv)
    /\ InverseExact(recv)
    /\ Returned("inverseRoundTrip", 0, 0, None, inverseRoundTrip(recv))

NextCall ==
    \/ Construct
    \/ BuildMatrix
    \/ CallGet
    \/ CallTranspose
    \/ CallTransposeTwiceEq
    \/ CallMultiply
    \/ CallMultiplyNumber
    \/ CallDeterminant
    \/ CallAdjugate
    \/ CallInverse

SpecCall == InitCall /\ [][NextCall]_vars

------------------------------------------------------------------------------
(* SpecAlgebra: a square matrix is constructed, then one algebraic method is called *)

InitAlgebra ==
    /\ HeapIdle
    /\ \E n \in 1..MaxN :
         \E at \in { P \in SUBSET (1..(n * n)) : Cardinality(P) <= MaxEdits } :
            \E e \in [at -> (-MaxElem)..MaxElem] :
                recv = New(n, n, [k \in 1..(n * n) |->
                                    IF k \in at THEN e[k] ELSE identity(n).values[k]])
    /\ ctor = [ySize |-> recv.ySize, xSize |-> recv.xSize, values |-> recv.values]
    /\ call = Called("new", recv.ySize, recv.xSize, None)
    /\ ret = recv

NextAlgebra ==
    \/ CallDeterminant
    \/ CallAdjugate
    \/ CallInverse
    \/ CallInverseRoundTrip

SpecAlgebra == InitAlgebra /\ [][NextAlgebra]_vars

------------------------------------------------------------------------------
(* Spec: any sequence of builder and method calls on the matrices built so far *)

Init ==
    /\ heap = <<>>
    /\ built = <<>>
    /\ last = NoneYet
    /\ ctor = NoArgs
    /\ recv = None
    /\ call = NoCall
    /\ ret = None

Objs == 1..Len(heap)

\* The shapes given to a builder
Shapes == { <<y, x>> \in (1..MaxLen) \X (1..MaxLen) : y * x <= MaxLen }

\* The row or column arguments tried on a matrix with n of them: each one, and one outside
Indexes(n) == 0..Max(n, 0)

\* A call is over: r is what it returned or threw.  A matrix it returned joins
\* the heap.
Done(op, on, r) ==
    /\ last' = [op |-> op, kind |-> r.kind]
    /\ IF IsMat(r)
       THEN heap' = Append(heap, r) /\ built' = Append(built, r)
       ELSE UNCHANGED <<heap, built>>
    /\ UNCHANGED <<ctor, recv, call, ret>>

\* The same for mirror(), which works on this.values: the receiver's values are
\* whatever the call left in them
DoneOn(op, on, run) ==
    /\ last' = [op |-> op, kind |-> run.ret.kind]
    /\ LET after == [heap EXCEPT ![on].values = run.self] IN
       IF IsMat(run.ret)
       THEN heap' = Append(after, run.ret) /\ built' = Append(built, run.ret)
       ELSE heap' = after /\ UNCHANGED built
    /\ UNCHANGED <<ctor, recv, call, ret>>

\* The callers of the class build MaxObjs matrices and then stop
Room == Len(heap) < MaxObjs

\* The values are 1, 2, ..., one too few, as many as, or one more than ySize * xSize
NewMatrix ==
    /\ Room
    /\ \E s \in Shapes, n \in -1..1 :
         Done("new", 0, New(s[1], s[2], Ramp(1, s[1] * s[2] + n)))

Matrix_matrix ==
    /\ Room
    /\ \E s \in Shapes, n \in -1..1 :
         Done("matrix", 0, matrix(s[1], s[2], Ramp(1, s[1] * s[2] + n)))

Matrix_identity ==
    /\ Room
    /\ \E size \in 1..MaxLen : size * size <= MaxLen /\ Done("identity", 0, identity(size))

Matrix_scalar ==
    /\ Room
    /\ \E s \in Shapes, value \in Scalars : Done("scalar", 0, scalar(s[1], s[2], value))

Matrix_vector ==
    /\ Room
    /\ \E n \in 1..MaxLen : Done("vector", 0, vector(Ramp(1, n)))

Get ==
    /\ Room
    /\ \E i \in Objs :
         \E y \in Indexes(heap[i].ySize), x \in Indexes(heap[i].xSize) :
            Done("get", i, Num(get(heap[i], y, x)))

Eq == Room /\ \E i \in Objs, j \in Objs : Done("eq", i, Bool(eq(heap[i], heap[j])))

Transpose == Room /\ \E i \in Objs : Done("transpose", i, transpose(heap[i]))

Rotate == Room /\ \E i \in Objs : Done("rotate", i, rotate(heap[i]))

Determinant == Room /\ \E i \in Objs : Done("determinant", i, determinant(heap[i]))

Minor ==
    /\ Room
    /\ \E i \in Objs :
         \E y \in Indexes(heap[i].ySize), x \in Indexes(heap[i].xSize) :
            Done("minor", i, minor(heap[i], y, x))

Minors == Room /\ \E i \in Objs : Done("minors", i, minors(heap[i]))

Inverse ==
    /\ Room
    /\ \E i \in Objs : InverseExact(heap[i]) /\ Done("inverse", i, inverse(heap[i]))

Adjugate == Room /\ \E i \in Objs : Done("adjugate", i, adjugate(heap[i]))

Mirror == Room /\ \E i \in Objs : DoneOn("mirror", i, mirrorRun(heap[i]))

Multiply ==
    /\ Room
    /\ \E i \in Objs, j \in Objs : Done("multiply", i, multiply(heap[i], heap[j]))

MultiplyNumber ==
    /\ Room
    /\ \E i \in Objs, k \in Scalars : Done("multiply", i, multiply(heap[i], Num(k)))

Col ==
    /\ Room
    /\ \E i \in Objs : \E x \in Indexes(heap[i].xSize) : Done("col", i, col(heap[i], x))

Row ==
    /\ Room
    /\ \E i \in Objs : \E y \in Indexes(heap[i].ySize) : Done("row", i, row(heap[i], y))

Map == Room /\ \E i \in Objs, fn \in MapFns : Done("map", i, map(heap[i], fn))

Reduce ==
    /\ Room
    /\ \E i \in Objs, initial \in 0..1 : Done("reduce", i, reduce(heap[i], "add", initial))

Next ==
    \/ NewMatrix
    \/ Matrix_matrix
    \/ Matrix_identity
    \/ Matrix_scalar
    \/ Matrix_vector
    \/ Get
    \/ Eq
    \/ Transpose
    \/ Rotate
    \/ Determinant
    \/ Minor
    \/ Minors
    \/ Inverse
    \/ Adjugate
    \/ Mirror
    \/ Multiply
    \/ MultiplyNumber
    \/ Col
    \/ Row
    \/ Map
    \/ Reduce

Spec == Init /\ [][Next]_vars

------------------------------------------------------------------------------
(* The determinant by its definition, to compare determinant() with *)

PermutationsOf(n) ==
    { p \in [1..n -> 1..n] : \A i, j \in 1..n : i # j => p[i] # p[j] }

Signature(p, n) ==
    PowNeg1(Cardinality({ ij \in (1..n) \X (1..n) : ij[1] < ij[2] /\ p[ij[1]] > p[ij[2]] }))

RECURSIVE DiagonalProduct(_, _, _)
DiagonalProduct(m, p, i) ==
    IF i > m.ySize THEN 1
    ELSE m.values[(i - 1) * m.xSize + p[i]] * DiagonalProduct(m, p, i + 1)

RECURSIVE LeibnizSum(_, _)
LeibnizSum(m, ps) ==
    IF ps = {} THEN 0
    ELSE With(CHOOSE p \in ps : TRUE, LAMBDA p :
            Signature(p, m.ySize) * DiagonalProduct(m, p, 1)
            + LeibnizSum(m, ps \ {p}))

\* The sum over the permutations p of sign(p) * m[1, p(1)] * ... * m[n, p(n)]
Leibniz(m) == LeibnizSum(m, PermutationsOf(m.ySize))

------------------------------------------------------------------------------
(* Claims *)

IsConstruction == call.op \in {"new", "matrix"}

\* Construction fails when the number of values is not ySize * xSize, and
\* otherwise returns a matrix of those dimensions
CountChecked ==
    IsConstruction =>
        /\ Len(ctor.values) # ctor.ySize * ctor.xSize => IsErr(ret)
        /\ Len(ctor.values) = ctor.ySize * ctor.xSize =>
             IsMat(ret) /\ ret.ySize = ctor.ySize /\ ret.xSize = ctor.xSize

\* The value the caller supplied at the flat position of the get call
SuppliedAt == ctor.values[call.y * ctor.xSize + call.x + 1]

\* C1 as stated: construction, by new Matrix or by the curried builder, fails
\* whenever the number of values differs from ySize * xSize (too few or too many)
\* and succeeds exactly when they are equal; the matrix built has the dimensions
\* given, and get(y, x) returns the value supplied at flat position y * xSize + x.
C1_GetReturnsSupplied ==
    /\ CountChecked
    /\ call.op = "get" => ret = Num(SuppliedAt)

\* C1 amended: the same, but get(y, x) returns the value supplied at flat
\* position y * xSize + x as converted to single precision by the constructor.
C1_GetReturnsStored ==
    /\ CountChecked
    /\ call.op = "get" =>
         /\ recv.ySize = ctor.ySize
         /\ recv.xSize = ctor.xSize
         /\ ret = Num(fround(SuppliedAt))

\* C1 witness: 2^24 + 1 was supplied and get returned 2^24 at its position
C1_GetOfRounded ==
    /\ call.op = "get"
    /\ SuppliedAt = F32Exact + 1
    /\ ret = Num(F32Exact)

\* C2: for every invertible square matrix m (determinant 1 or -1, so that the
\* division is exact) of every size n >= 1, m.inverse() returns a matrix and
\* m.inverse().multiply(m).eq(Matrix.identity(n)) is true.
C2_InverseRoundTrip ==
    (Leibniz(recv) \in {1, -1}) =>
        /\ call.op = "inverse" => IsMat(ret)
        /\ call.op = "inverseRoundTrip" => ret = Bool(TRUE)

\* C3: determinant() of a square matrix of size 1 to 3 is the determinant of the
\* matrix: the Leibniz sum (the single element for n = 1, ad - bc for n = 2).
C3_DeterminantIsLeibniz ==
    (call.op = "determinant" /\ recv.ySize \in 1..3) => ret = Num(Leibniz(recv))

\* The sum over z' in 0..z of a.get(y, z') * b.get(z', x), added up from 0
RECURSIVE RowByColumn(_, _, _, _, _)
RowByColumn(a, b, y, x, z) ==
    IF z < 0 THEN 0
    ELSE FAdd(RowByColumn(a, b, y, x, z - 1), FMul(get(a, y, z), get(b, z, x)))

IsProduct == call.op = "multiply" /\ IsMat(call.arg)

IsMatchingProduct == IsProduct /\ call.arg.ySize = recv.xSize

ProductShaped ==
    /\ IsMat(ret)
    /\ ret.ySize = recv.ySize
    /\ ret.xSize = call.arg.xSize

\* C4 as stated: for a (r x k) and a matrix operand b (k x c), a.multiply(b) is an
\* r x c matrix whose element (y, x) equals the sum over z in 0..k-1 of
\* a.get(y, z) * b.get(z, x).
C4_MultiplyIsRowByColumn ==
    IsMatchingProduct =>
        /\ ProductShaped
        /\ \A y \in 0..(recv.ySize - 1), x \in 0..(call.arg.xSize - 1) :
              get(ret, y, x) = RowByColumn(recv, call.arg, y, x, recv.xSize - 1)

\* C4 amended: a.multiply(b) is an r x c matrix whose element (y, x) is the sum
\* over z in 0..k-1 of a.get(y, z) * b.get(z, x) rounded to single precision.
C4_MultiplyIsRoundedRowByColumn ==
    IsMatchingProduct =>
        /\ ProductShaped
        /\ \A y \in 0..(recv.ySize - 1), x \in 0..(call.arg.xSize - 1) :
              get(ret, y, x) = fround(RowByColumn(recv, call.arg, y, x, recv.xSize - 1))

\* C4 witness: a row of two elements was multiplied by a column of two, both
\* products are not zero and their sum is not a single-precision value
C4_RoundedProduct ==
    /\ IsMatchingProduct
    /\ recv.xSize = 2
    /\ IsMat(ret)
    /\ FMul(get(recv, 0, 0), get(call.arg, 0, 0)) > 0
    /\ FMul(get(recv, 0, 1), get(call.arg, 1, 0)) > 0
    /\ get(ret, 0, 0) # RowByColumn(recv, call.arg, 0, 0, 1)

\* C5: multiply(operand) with a matrix operand whose row count differs from the
\* receiver's column count fails with an error and never returns a matrix.
C5_MultiplyRejectsMismatch ==
    (IsProduct /\ call.arg.ySize # recv.xSize) => IsErr(ret) /\ ~IsMat(ret)

IsAlgebra == call.op \in {"determinant", "adjugate", "inverse"}

NotSquare == recv.ySize >= 1 /\ recv.xSize >= 1 /\ recv.ySize # recv.xSize

\* C6: on every matrix with rowCount >= 1, colCount >= 1 and rowCount # colCount,
\* each of determinant(), adjugate() and inverse() fails with the not-square
\* error and returns no value.
C6_NotSquareThrows ==
    (IsAlgebra /\ NotSquare) => ret = Throw("NotSquare")

\* C6 witness: adjugate() was called on a 1 x 2 matrix and threw
C6_AdjugateOfRowThrew ==
    /\ call.op = "adjugate"
    /\ recv.ySize = 1
    /\ recv.xSize = 2
    /\ IsErr(ret)

Transposed ==
    call.op = "transpose" =>
        /\ IsMat(ret)
        /\ ret.ySize = recv.xSize
        /\ ret.xSize = recv.ySize
        /\ \A y \in 0..(recv.ySize - 1), x \in 0..(recv.xSize - 1) :
              get(ret, x, y) = get(recv, y, x)

HasNaN(m) == \E i \in 1..Len(m.values) : m.values[i] = NaN

\* C7 as stated: for every matrix m (r x c), m.transpose() is c x r with
\* transpose.get(x, y) = m.get(y, x) for all y < r, x < c, and
\* m.transpose().transpose().eq(m) is true.
C7_TransposeInvolution ==
    /\ Transposed
    /\ call.op = "transposeTwiceEq" => ret = Bool(TRUE)

\* C7 amended: m.transpose() is c x r and holds at (x, y) the element m holds at
\* (y, x); m.transpose().transpose().eq(m) is true when no element of m is NaN,
\* and false when one is.
C7_TransposeInvolutionUnlessNaN ==
    /\ Transposed
    /\ call.op = "transposeTwiceEq" => ret = Bool(~HasNaN(recv))

\* C7 witness: a 2 x 2 matrix that is not symmetric and holds no NaN was
\* transposed twice and compared equal to itself
C7_TransposedAsymmetric ==
    /\ call.op = "transposeTwiceEq"
    /\ recv.ySize = 2
    /\ recv.xSize = 2
    /\ ~HasNaN(recv)
    /\ get(recv, 0, 1) # get(recv, 1, 0)
    /\ ret = Bool(TRUE)

C9_PositiveDimensions ==
    \A i \in Objs : heap[i].ySize >= 1 /\ heap[i].xSize >= 1

\* C10: adjugate() is the transpose of the cofactor matrix: for a square matrix m
\* of size n from 2 to 4 it is n x n, and its element (i, j) is (-1)^(i+j) times
\* the determinant of m.minor(j, i).
C10_AdjugateIsCofactorTranspose ==
    (call.op = "adjugate" /\ recv.ySize \in 2..4) =>
        /\ IsMat(ret)
        /\ ret.ySize = recv.ySize
        /\ ret.xSize = recv.xSize
        /\ \A i \in 0..(recv.ySize - 1), j \in 0..(recv.xSize - 1) :
              get(ret, i, j) = PowNeg1(i + j) * determinant(minor(recv, j, i)).num

====
